---- MODULE Spec2Model ----
(***************************************************************************)
(* A model of PolygonLookup (src/src/index.ts) and getBoundingBox          *)
(* (src/unnamed/part_002, imported as ./utils.js).                         *)
(*                                                                         *)
(* JavaScript arrays are modelled as sequences: the JS element a[i] is the *)
(* sequence element a[i + 1], "a[i] === undefined" is "Len(a) < i + 1".    *)
(* polyId keeps its 0-based JS value.  An object reference (the properties *)
(* object of a feature) is modelled by the identity of the object.         *)
(***************************************************************************)
EXTENDS Integers, Sequences, FiniteSets, TLC

\* ------------------------------------------------------------------ bounds
MaxFeatures == 2     \* features in the collection given to the constructor
MaxReload   == 1     \* features in a collection given to a later load
GridMax     == 3     \* query coordinates range over 0..GridMax
MaxLimit    == 2     \* provided limits range over -2..MaxLimit
MaxRot      == 0     \* traversal layouts of the index (see Traverse)

\* ------------------------------------------------------- input geometries
Square(a, b) == << <<a, a>>, <<b, a>>, <<b, b>>, <<a, b>>, <<a, a>> >>

Triangle == << <<1, 1>>, <<2, 1>>, <<1, 2>>, <<1, 1>> >>

NoGeometry == [type |-> "undefined", coordinates |-> <<>>]

Geom(t, c) == [type |-> t, coordinates |-> c]

Feat(p, g) == [type |-> "Feature", properties |-> p, geometry |-> g]

\* The features a collection is built from.  properties is the identity of
\* the feature's properties object.
\*   1  a square with a square hole
\*   2  a triangle inside that hole
\*   3  a MultiPolygon of two overlapping squares
\*   4  a MultiPolygon whose second ring-group is empty
\*   5  a feature without geometry
\*   6  a LineString
\*   7  a Polygon whose ring 0 is empty
\*   8  a Polygon whose ring 0 starts with a position without coordinates
Feature(i) ==
  CASE i = 1 -> Feat(1, Geom("Polygon", << Square(0, 3), Square(1, 2) >>))
    [] i = 2 -> Feat(2, Geom("Polygon", << Triangle >>))
    [] i = 3 -> Feat(3, Geom("MultiPolygon",
                    << << Square(0, 2) >>, << Square(1, 3) >> >>))
    [] i = 4 -> Feat(4, Geom("MultiPolygon",
                    << << Square(0, 1) >>, << >>, << Square(2, 3) >> >>))
    [] i = 5 -> Feat(5, NoGeometry)
    [] i = 6 -> Feat(6, Geom("LineString", << <<0, 0>>, <<3, 3>> >>))
    [] i = 7 -> Feat(7, Geom("Polygon", << << >> >>))
    [] i = 8 -> Feat(8, Geom("Polygon", << << << >> >> >>))

FeatureIds == 1..8

RECURSIVE SeqsUpTo(_, _)
SeqsUpTo(S, n) ==
  IF n = 0 THEN { <<>> }
  ELSE LET shorter == SeqsUpTo(S, n - 1)
       IN  shorter \cup { Append(s, e) : s \in shorter, e \in S }

\* A collection is named by the ids of its features, in order.
Collections == SeqsUpTo(FeatureIds, MaxFeatures)

ReloadCollections == SeqsUpTo(FeatureIds, MaxReload)

FeaturesOf(ids) == [k \in 1..Len(ids) |-> Feature(ids[k])]

\* loadFeatureCollection's argument: null, an object without features, an
\* object whose features is not an array, or a FeatureCollection.
BadArguments == {"null", "nofeatures", "notarray"}

Coll(ids) == [kind |-> "collection", ids |-> ids, features |-> FeaturesOf(ids)]

BadColl(k) == [kind |-> k, ids |-> <<>>, features |-> <<>>]

Grid == 0..GridMax

Limits == (-2)..MaxLimit

\* ------------------------------------------------------------ getBoundingBox
NoBox == [minX |-> 0, minY |-> 0, maxX |-> 0, maxY |-> 0]

\* A fold that compares x with minX where it should compare it with maxX.
FoldXAgainstMin(bbox, x) ==
  IF x < bbox.minX THEN [bbox EXCEPT !.minX = x]
  ELSE IF x > bbox.minX THEN [bbox EXCEPT !.maxX = x]
  ELSE bbox

FoldX(bbox, x) ==
  IF x < bbox.minX THEN [bbox EXCEPT !.minX = x]
  ELSE IF x > bbox.maxX THEN [bbox EXCEPT !.maxX = x]
  ELSE bbox

FoldY(bbox, y) ==
  IF y < bbox.minY THEN [bbox EXCEPT !.minY = y]
  ELSE IF y > bbox.maxY THEN [bbox EXCEPT !.maxY = y]
  ELSE bbox

RECURSIVE BoxLoop(_, _, _)
BoxLoop(poly, ind, bbox) ==
  IF ind > Len(poly) THEN bbox
  ELSE LET pt == poly[ind]
       IN  IF Len(pt) < 2 THEN BoxLoop(poly, ind + 1, bbox)
           ELSE BoxLoop(poly, ind + 1, FoldY(FoldX(bbox, pt[1]), pt[2]))

\* A getBoundingBox that only tests that the first position exists.
getBoundingBoxUnchecked(poly) ==
  IF Len(poly) = 0
  THEN [threw |-> TRUE, bbox |-> NoBox]
  ELSE IF Len(poly[1]) < 2
  THEN [threw |-> FALSE, bbox |-> BoxLoop(poly, 2, NoBox)]
  ELSE LET firstPt == poly[1]
       IN  [threw |-> FALSE,
            bbox  |-> BoxLoop(poly, 2, [minX |-> firstPt[1], minY |-> firstPt[2],
                                        maxX |-> firstPt[1], maxY |-> firstPt[2]])]

\* [threw, bbox]: threw when the ring has no first position or the first
\* position lacks a coordinate.
getBoundingBox(poly) ==
  IF Len(poly) = 0 \/ Len(poly[1]) < 2
  THEN [threw |-> TRUE, bbox |-> NoBox]
  ELSE LET firstPt == poly[1]
       IN  [threw |-> FALSE,
            bbox  |-> BoxLoop(poly, 2, [minX |-> firstPt[1], minY |-> firstPt[2],
                                        maxX |-> firstPt[1], maxY |-> firstPt[2]])]

\* --------------------------------------------------- pointInPolygonWithHoles
\* booleanPointInPolygon of a point and a one-ring polygon: true inside the
\* ring and on its boundary.
OnSegment(p, a, b) ==
  /\ (b[1] - a[1]) * (p[2] - a[2]) = (b[2] - a[2]) * (p[1] - a[1])
  /\ (a[1] <= p[1] /\ p[1] <= b[1]) \/ (b[1] <= p[1] /\ p[1] <= a[1])
  /\ (a[2] <= p[2] /\ p[2] <= b[2]) \/ (b[2] <= p[2] /\ p[2] <= a[2])

Crosses(p, a, b) ==
  /\ (a[2] > p[2]) # (b[2] > p[2])
  /\ LET dy == b[2] - a[2]
         lhs == (p[1] - a[1]) * dy
         rhs == (b[1] - a[1]) * (p[2] - a[2])
     IN  IF dy > 0 THEN lhs < rhs ELSE lhs > rhs

booleanPointInPolygon(p, ring) ==
  LET edges == 1..(Len(ring) - 1)
  IN  \/ \E k \in edges : OnSegment(p, ring[k], ring[k + 1])
      \/ Cardinality({k \in edges : Crosses(p, ring[k], ring[k + 1])}) % 2 = 1

RECURSIVE InSomeHole(_, _, _)
InSomeHole(point, coordinates, subPolyInd) ==
  IF subPolyInd > Len(coordinates) THEN FALSE
  ELSE IF booleanPointInPolygon(point, coordinates[subPolyInd]) THEN TRUE
  ELSE InSomeHole(point, coordinates, subPolyInd + 1)

pointInPolygonWithHoles(point, polygon) ==
  LET coordinates == polygon.geometry.coordinates
  IN  IF Len(coordinates) = 0 THEN FALSE
      ELSE IF booleanPointInPolygon(point, coordinates[1])
           THEN ~InSomeHole(point, coordinates, 2)
           ELSE FALSE

\* ------------------------------------------------------------ the instance
VARIABLES
  indexType,   \* "rbush" | "flatbush", fixed by the constructor
  layout,      \* the traversal layout of the tree the backend builds
  rtree,       \* the RBush index, or null (built = FALSE)
  flatIndex,   \* the Flatbush index, or null (built = FALSE)
  bboxData,    \* the bounding boxes of the last load, by insertion index
  polygons,    \* the polygon store
  loaded,      \* ids of the features of the last collection that was loaded
  lastLoad,    \* "none" before any load, "ok" after a load that returned,
               \* "error" after a load that threw having changed a field
  call,        \* the last call made on the instance
  result       \* what that call returned or threw

vars == <<indexType, layout, rtree, flatIndex, bboxData, polygons,
          loaded, lastLoad, call, result>>

Null == [built |-> FALSE, items |-> <<>>]

Reverse(s) == [k \in 1..Len(s) |-> s[Len(s) + 1 - k]]

Rotate(s, r) == [k \in 1..Len(s) |-> s[((k - 1 + r) % Len(s)) + 1]]

\* The order in which a built tree yields its entries.  It is fixed when the
\* tree is built (by the backend, the node size and the boxes); a search
\* yields the intersecting entries in this order.
Traverse(items, lay) ==
  LET rotated == IF Len(items) = 0 THEN items ELSE Rotate(items, lay.rot)
  IN  IF lay.rev THEN Reverse(rotated) ELSE rotated

Layouts == [rot : 0..MaxRot, rev : BOOLEAN]

\* An indexPolygon that puts the record in front of the store.
indexPolygonPrepend(acc, poly) ==
  LET pushed == [acc EXCEPT !.polygons = <<poly>> \o @]
      rings  == poly.geometry.coordinates
  IN  IF Len(rings) = 0 THEN pushed
      ELSE LET got == getBoundingBox(rings[1])
           IN  IF got.threw THEN [pushed EXCEPT !.threw = TRUE]
               ELSE [pushed EXCEPT
                       !.bboxes = Append(@, [minX |-> got.bbox.minX,
                                             minY |-> got.bbox.minY,
                                             maxX |-> got.bbox.maxX,
                                             maxY |-> got.bbox.maxY,
                                             polyId |-> acc.polyId]),
                       !.polyId = @ + 1]

\* --------------------------------------------------- loadFeatureCollection
\* acc is the closure state of one load: polygons, bboxes, polyId, and
\* whether getBoundingBox threw.
indexPolygon(acc, poly) ==
  LET pushed == [acc EXCEPT !.polygons = Append(@, poly)]
      rings  == poly.geometry.coordinates
  IN  IF Len(rings) = 0 THEN pushed
      ELSE LET got == getBoundingBox(rings[1])
           IN  IF got.threw THEN [pushed EXCEPT !.threw = TRUE]
               ELSE [pushed EXCEPT
                       !.bboxes = Append(@, [minX |-> got.bbox.minX,
                                             minY |-> got.bbox.minY,
                                             maxX |-> got.bbox.maxX,
                                             maxY |-> got.bbox.maxY,
                                             polyId |-> acc.polyId]),
                       !.polyId = @ + 1]

childPoly(poly, childPolyCoords) ==
  [type |-> "Feature", properties |-> poly.properties,
   geometry |-> [type |-> "Polygon", coordinates |-> childPolyCoords]]

RECURSIVE indexChildren(_, _, _)
indexChildren(acc, poly, ind) ==
  IF acc.threw \/ ind > Len(poly.geometry.coordinates) THEN acc
  ELSE indexChildren(
         indexPolygon(acc, childPoly(poly, poly.geometry.coordinates[ind])),
         poly, ind + 1)

indexFeature(acc, poly) ==
  IF /\ poly.geometry.type # "undefined"
     /\ Len(poly.geometry.coordinates) > 0
     /\ Len(poly.geometry.coordinates[1]) > 0
  THEN CASE poly.geometry.type = "Polygon" -> indexPolygon(acc, poly)
         [] poly.geometry.type = "MultiPolygon" -> indexChildren(acc, poly, 1)
         [] OTHER -> acc
  ELSE acc

RECURSIVE forEachFeature(_, _, _)
forEachFeature(acc, features, k) ==
  IF acc.threw \/ k > Len(features) THEN acc
  ELSE forEachFeature(indexFeature(acc, features[k]), features, k + 1)

\* A build that makes no tree when there is no box.
buildRbushIndexSkipEmpty(self, bboxes) ==
  IF Len(bboxes) = 0 THEN [self EXCEPT !.flatIndex = Null]
  ELSE
  [self EXCEPT !.rtree = [built |-> TRUE, items |-> Traverse(bboxes, self.layout)],
               !.flatIndex = Null]

buildRbushIndex(self, bboxes) ==
  [self EXCEPT !.rtree = [built |-> TRUE, items |-> Traverse(bboxes, self.layout)],
               !.flatIndex = Null]

FlatEntry(bboxes, i) ==
  [idx |-> i - 1, minX |-> bboxes[i].minX, minY |-> bboxes[i].minY,
   maxX |-> bboxes[i].maxX, maxY |-> bboxes[i].maxY]

\* new Flatbush(numItems, nodeSize) rejects numItems = 0; the exception
\* leaves the fields assigned before the build as they are.
buildFlatbushThrows(bboxes) == Len(bboxes) = 0

\* A build that keeps a Flatbush index that was already finished.
buildFlatbushIndexKeep(self, bboxes) ==
  IF self.flatIndex.built THEN [self EXCEPT !.rtree = Null]
  ELSE
  [self EXCEPT
     !.flatIndex = [built |-> TRUE,
                    items |-> Traverse([i \in 1..Len(bboxes) |-> FlatEntry(bboxes, i)],
                                       self.layout)],
     !.rtree = Null]

buildFlatbushIndex(self, bboxes) ==
  [self EXCEPT
     !.flatIndex = [built |-> TRUE,
                    items |-> Traverse([i \in 1..Len(bboxes) |-> FlatEntry(bboxes, i)],
                                       self.layout)],
     !.rtree = Null]

\* A load that empties the store before it validates its argument.
loadFeatureCollectionResetFirst(self, collection) ==
  IF collection.kind = "null"
  THEN [self |-> [self EXCEPT !.bboxData = <<>>, !.polygons = <<>>],
        error |-> "collection parameter is required"]
  ELSE IF collection.kind = "nofeatures"
  THEN [self |-> [self EXCEPT !.bboxData = <<>>, !.polygons = <<>>],
        error |-> "collection must have a 'features' property"]
  ELSE IF collection.kind = "notarray"
  THEN [self |-> [self EXCEPT !.bboxData = <<>>, !.polygons = <<>>],
        error |-> "collection.features must be an array"]
  ELSE
    LET acc == forEachFeature([polygons |-> <<>>, bboxes |-> <<>>, polyId |-> 0,
                               threw |-> FALSE], collection.features, 1)
    IN  IF acc.threw
        THEN [self |-> self, error |-> "getBoundingBox"]
        ELSE LET stored == [self EXCEPT !.bboxData = acc.bboxes,
                                        !.polygons = acc.polygons]
             IN  IF self.indexType = "flatbush"
                 THEN IF buildFlatbushThrows(acc.bboxes)
                      THEN [self |-> stored, error |-> "Flatbush"]
                      ELSE [self |-> buildFlatbushIndex(stored, acc.bboxes),
                            error |-> "none"]
                 ELSE [self |-> buildRbushIndex(stored, acc.bboxes),
                       error |-> "none"]

\* [self, error]: the instance after the call and the error it raised
\* ("none" when it returned).
loadFeatureCollection(self, collection) ==
  IF collection.kind = "null"
  THEN [self |-> self, error |-> "collection parameter is required"]
  ELSE IF collection.kind = "nofeatures"
  THEN [self |-> self, error |-> "collection must have a 'features' property"]
  ELSE IF collection.kind = "notarray"
  THEN [self |-> self, error |-> "collection.features must be an array"]
  ELSE
    LET acc == forEachFeature([polygons |-> <<>>, bboxes |-> <<>>, polyId |-> 0,
                               threw |-> FALSE], collection.features, 1)
    IN  IF acc.threw
        THEN [self |-> self, error |-> "getBoundingBox"]
        ELSE LET stored == [self EXCEPT !.bboxData = acc.bboxes,
                                        !.polygons = acc.polygons]
             IN  IF self.indexType = "flatbush"
                 THEN IF buildFlatbushThrows(acc.bboxes)
                      THEN [self |-> stored, error |-> "Flatbush"]
                      ELSE [self |-> buildFlatbushIndex(stored, acc.bboxes),
                            error |-> "none"]
                 ELSE [self |-> buildRbushIndex(stored, acc.bboxes),
                       error |-> "none"]

\* ------------------------------------------------------------------ search
\* bboxData[idx] of an index the array does not have is undefined.
UndefinedBox == [minX |-> 0, minY |-> 0, maxX |-> 0, maxY |-> 0, polyId |-> -1]

Intersects(b, x, y) == b.minX <= x /\ x <= b.maxX /\ b.minY <= y /\ y <= b.maxY

\* A searchRbush without the test of the tree: this.rtree.search on null.
searchRbushUnguarded(self, x, y) ==
  IF ~self.rtree.built THEN <<UndefinedBox>>
  ELSE SelectSeq(self.rtree.items, LAMBDA b : Intersects(b, x, y))

searchRbush(self, x, y) ==
  IF ~self.rtree.built THEN <<>>
  ELSE SelectSeq(self.rtree.items, LAMBDA b : Intersects(b, x, y))

searchFlatbush(self, x, y) ==
  IF ~self.flatIndex.built THEN <<>>
  ELSE LET indices == SelectSeq(self.flatIndex.items, LAMBDA b : Intersects(b, x, y))
       IN  [k \in 1..Len(indices) |->
              IF indices[k].idx + 1 <= Len(self.bboxData)
              THEN self.bboxData[indices[k].idx + 1]
              ELSE UndefinedBox]

searchIndex(self, x, y) ==
  IF self.indexType = "flatbush" THEN searchFlatbush(self, x, y)
  ELSE searchRbush(self, x, y)

\* bboxes.map((bbox) => this.polygons[bbox.polyId]) raises a TypeError on an
\* undefined bbox, and the resolver raises one on an undefined polygon.
MapThrows(self, bboxes) ==
  \E k \in 1..Len(bboxes) :
    bboxes[k].polyId < 0 \/ bboxes[k].polyId + 1 > Len(self.polygons)

MapPolygons(self, bboxes) ==
  [k \in 1..Len(bboxes) |-> self.polygons[bboxes[k].polyId + 1]]

TypeError == [kind |-> "TypeError", features |-> <<>>, tested |-> 0]

\* Mutant of Find: the first candidate is returned without the resolver.
FindUntested(point, polys, k) ==
  IF k > Len(polys)
  THEN [kind |-> "undefined", features |-> <<>>, tested |-> Len(polys)]
  ELSE [kind |-> "Feature", features |-> <<polys[k]>>, tested |-> 0]

\* Mutant of Find: the last candidate that matches is returned.
RECURSIVE FindLast(_, _, _)
FindLast(point, polys, k) ==
  IF k > Len(polys)
  THEN [kind |-> "undefined", features |-> <<>>, tested |-> Len(polys)]
  ELSE IF pointInPolygonWithHoles(point, polys[Len(polys) + 1 - k])
  THEN [kind |-> "Feature", features |-> <<polys[Len(polys) + 1 - k]>>,
        tested |-> k]
  ELSE FindLast(point, polys, k + 1)

RECURSIVE Find(_, _, _)
Find(point, polys, k) ==
  IF k > Len(polys)
  THEN [kind |-> "undefined", features |-> <<>>, tested |-> Len(polys)]
  ELSE IF pointInPolygonWithHoles(point, polys[k])
  THEN [kind |-> "Feature", features |-> <<polys[k]>>, tested |-> k]
  ELSE Find(point, polys, k + 1)

searchForOnePolygon(self, x, y) ==
  LET bboxes == searchIndex(self, x, y)
  IN  IF MapThrows(self, bboxes) THEN TypeError
      ELSE Find(<<x, y>>, MapPolygons(self, bboxes), 1)

\* Number.MAX_SAFE_INTEGER is 2^53 - 1; the model uses the largest integer of
\* the checker, which also exceeds every number of candidates.
MAX_SAFE_INTEGER == 2147483647

\* polygons.filter with the matchesFound counter of the closure; tested
\* counts the calls of the resolver.
\* Mutant of Filter: every candidate is kept without the resolver.
RECURSIVE FilterUntested(_, _, _, _, _, _, _)
FilterUntested(point, polys, k, safeLimit, matchesFound, kept, tested) ==
  IF k > Len(polys)
  THEN [kind |-> "FeatureCollection", features |-> kept, tested |-> tested]
  ELSE IF matchesFound >= safeLimit
  THEN FilterUntested(point, polys, k + 1, safeLimit, matchesFound, kept, tested)
  ELSE FilterUntested(point, polys, k + 1, safeLimit, matchesFound + 1,
                      Append(kept, polys[k]), tested)

\* Mutant of Filter: the short circuit compares with > instead of >=.
RECURSIVE FilterOffByOne(_, _, _, _, _, _, _)
FilterOffByOne(point, polys, k, safeLimit, matchesFound, kept, tested) ==
  IF k > Len(polys)
  THEN [kind |-> "FeatureCollection", features |-> kept, tested |-> tested]
  ELSE IF matchesFound > safeLimit
  THEN FilterOffByOne(point, polys, k + 1, safeLimit, matchesFound, kept, tested)
  ELSE IF pointInPolygonWithHoles(point, polys[k])
  THEN FilterOffByOne(point, polys, k + 1, safeLimit, matchesFound + 1,
                      Append(kept, polys[k]), tested + 1)
  ELSE FilterOffByOne(point, polys, k + 1, safeLimit, matchesFound, kept, tested + 1)

\* Mutant of Filter: the candidates are scanned from the last to the first.
RECURSIVE FilterBackwards(_, _, _, _, _, _, _)
FilterBackwards(point, polys, k, safeLimit, matchesFound, kept, tested) ==
  IF k > Len(polys)
  THEN [kind |-> "FeatureCollection", features |-> kept, tested |-> tested]
  ELSE IF matchesFound >= safeLimit
  THEN FilterBackwards(point, polys, k + 1, safeLimit, matchesFound, kept, tested)
  ELSE IF pointInPolygonWithHoles(point, polys[Len(polys) + 1 - k])
  THEN FilterBackwards(point, polys, k + 1, safeLimit, matchesFound + 1,
                       Append(kept, polys[Len(polys) + 1 - k]), tested + 1)
  ELSE FilterBackwards(point, polys, k + 1, safeLimit, matchesFound, kept, tested + 1)

\* Mutant of Filter: the resolver is called on every candidate and the limit
\* only decides what is kept.
RECURSIVE FilterEager(_, _, _, _, _, _, _)
FilterEager(point, polys, k, safeLimit, matchesFound, kept, tested) ==
  IF k > Len(polys)
  THEN [kind |-> "FeatureCollection", features |-> kept, tested |-> tested]
  ELSE IF ~pointInPolygonWithHoles(point, polys[k])
  THEN FilterEager(point, polys, k + 1, safeLimit, matchesFound, kept, tested + 1)
  ELSE IF matchesFound >= safeLimit
  THEN FilterEager(point, polys, k + 1, safeLimit, matchesFound, kept, tested + 1)
  ELSE FilterEager(point, polys, k + 1, safeLimit, matchesFound + 1,
                   Append(kept, polys[k]), tested + 1)

RECURSIVE Filter(_, _, _, _, _, _, _)
Filter(point, polys, k, safeLimit, matchesFound, kept, tested) ==
  IF k > Len(polys)
  THEN [kind |-> "FeatureCollection", features |-> kept, tested |-> tested]
  ELSE IF matchesFound >= safeLimit
  THEN Filter(point, polys, k + 1, safeLimit, matchesFound, kept, tested)
  ELSE IF pointInPolygonWithHoles(point, polys[k])
  THEN Filter(point, polys, k + 1, safeLimit, matchesFound + 1,
              Append(kept, polys[k]), tested + 1)
  ELSE Filter(point, polys, k + 1, safeLimit, matchesFound, kept, tested + 1)

\* A searchForMultiplePolygons that takes every negative limit as unbounded.
searchForMultiplePolygonsNegative(self, x, y, limit) ==
  LET safeLimit == IF limit < 0 THEN MAX_SAFE_INTEGER ELSE limit
      bboxes    == searchIndex(self, x, y)
  IN  IF MapThrows(self, bboxes) THEN TypeError
      ELSE Filter(<<x, y>>, MapPolygons(self, bboxes), 1, safeLimit, 0, <<>>, 0)

searchForMultiplePolygons(self, x, y, limit) ==
  LET safeLimit == IF limit = -1 THEN MAX_SAFE_INTEGER ELSE limit
      bboxes    == searchIndex(self, x, y)
  IN  IF MapThrows(self, bboxes) THEN TypeError
      ELSE Filter(<<x, y>>, MapPolygons(self, bboxes), 1, safeLimit, 0, <<>>, 0)

\* Mutant of search: the dispatch tests "!limit", so limit = 0 is taken for
\* an omitted limit.
searchFalsyLimit(self, x, y, arg) ==
  IF ~arg.given \/ arg.limit = 0 THEN searchForOnePolygon(self, x, y)
  ELSE searchForMultiplePolygons(self, x, y, arg.limit)

\* Mutant of search: limit = 1 returns the polygon itself.
searchLimitOne(self, x, y, arg) ==
  IF ~arg.given \/ arg.limit = 1 THEN searchForOnePolygon(self, x, y)
  ELSE searchForMultiplePolygons(self, x, y, arg.limit)

\* arg is [given, limit]: given = FALSE is a call with limit undefined.
search(self, x, y, arg) ==
  IF ~arg.given THEN searchForOnePolygon(self, x, y)
  ELSE searchForMultiplePolygons(self, x, y, arg.limit)

LimitArgs == {[given |-> FALSE, limit |-> 0]} \cup [given : {TRUE}, limit : Limits]

\* ----------------------------------------------------------- state machine
Self == [indexType |-> indexType, layout |-> layout, rtree |-> rtree,
         flatIndex |-> flatIndex, bboxData |-> bboxData, polygons |-> polygons]

NoCall == [op |-> "none", x |-> 0, y |-> 0, given |-> FALSE, limit |-> 0]

NoResult == [kind |-> "none", features |-> <<>>, tested |-> 0]

\* The fields the constructor sets before it loads the collection.
Fresh(type, lay) ==
  [indexType |-> type, layout |-> lay, rtree |-> Null, flatIndex |-> Null,
   bboxData |-> <<>>, polygons |-> <<>>]

\* The options argument of the constructor: absent (or without indexType),
\* or naming a backend.
NoOptions == "undefined"

Options == {NoOptions, "rbush", "flatbush"}

\* this.indexType = options?.indexType ?? "rbush"
constructorIndexType(options) ==
  IF options = NoOptions THEN "rbush" ELSE options

\* new PolygonLookup(undefined, options), or new PolygonLookup(collection,
\* options) for a collection the constructor's load accepts.
Init ==
  /\ call = NoCall
  /\ result = NoResult
  /\ \E options \in Options, lay \in Layouts :
      LET type == constructorIndexType(options) IN
       \/ /\ indexType = type /\ layout = lay
          /\ rtree = Null /\ flatIndex = Null
          /\ bboxData = <<>> /\ polygons = <<>>
          /\ loaded = <<>> /\ lastLoad = "none"
       \/ \E ids \in Collections :
            LET done == loadFeatureCollection(Fresh(type, lay), Coll(ids))
            IN  /\ done.error = "none"
                /\ indexType = type /\ layout = lay
                /\ rtree = done.self.rtree /\ flatIndex = done.self.flatIndex
                /\ bboxData = done.self.bboxData /\ polygons = done.self.polygons
                /\ loaded = ids /\ lastLoad = "ok"

Idle == result.kind = "none"

\* lookup.loadFeatureCollection(collection) on the constructed instance.
Load(collection) ==
  /\ Idle
  /\ LET done == loadFeatureCollection(Self, collection)
     IN  /\ rtree' = done.self.rtree
         /\ flatIndex' = done.self.flatIndex
         /\ bboxData' = done.self.bboxData
         /\ polygons' = done.self.polygons
         /\ lastLoad' = IF done.error = "none" THEN "ok"
                        ELSE IF done.self = Self THEN lastLoad
                        ELSE "error"
         /\ loaded' = IF done.error = "none" THEN collection.ids ELSE loaded
         /\ result' = [kind |-> IF done.error = "none" THEN "void" ELSE done.error,
                       features |-> <<>>, tested |-> 0]
  /\ call' = [op |-> "load", x |-> 0, y |-> 0, given |-> FALSE, limit |-> 0,
              kind |-> collection.kind, ids |-> collection.ids,
              before |-> Len(polygons), prevLoad |-> lastLoad]
  /\ UNCHANGED <<indexType, layout>>

LoadCollection == \E ids \in ReloadCollections : Load(Coll(ids))

LoadBadArgument == \E k \in BadArguments : Load(BadColl(k))

\* A search that takes the records it returns out of the store.
SearchConsuming ==
  /\ Idle
  /\ \E x \in Grid, y \in Grid, arg \in LimitArgs :
       /\ result' = search(Self, x, y, arg)
       /\ call' = [op |-> "search", x |-> x, y |-> y,
                   given |-> arg.given, limit |-> arg.limit]
       /\ polygons' = SelectSeq(polygons,
                                LAMBDA p : \A j \in 1..Len(result'.features) :
                                             result'.features[j] # p)
  /\ UNCHANGED <<indexType, layout, rtree, flatIndex, bboxData,
                 loaded, lastLoad>>

\* lookup.search(x, y) and lookup.search(x, y, limit).
Search ==
  /\ Idle
  /\ \E x \in Grid, y \in Grid, arg \in LimitArgs :
       /\ result' = search(Self, x, y, arg)
       /\ call' = [op |-> "search", x |-> x, y |-> y,
                   given |-> arg.given, limit |-> arg.limit]
  /\ UNCHANGED <<indexType, layout, rtree, flatIndex, bboxData, polygons,
                 loaded, lastLoad>>

\* The caller takes the value the call returned (or catches what it threw).
Return ==
  /\ ~Idle
  /\ result' = NoResult
  /\ call' = NoCall
  /\ UNCHANGED <<indexType, layout, rtree, flatIndex, bboxData, polygons,
                 loaded, lastLoad>>

Next == LoadCollection \/ LoadBadArgument \/ Search \/ Return

Spec == Init /\ [][Next]_vars

\* ------------------------------------------------------------- properties
\* The point of the last search call.
Point == <<call.x, call.y>>

\* Containment as the specification words it: inside ring 0, inside no hole.
InRing0(pt, p) ==
  /\ Len(p.geometry.coordinates) > 0
  /\ booleanPointInPolygon(pt, p.geometry.coordinates[1])

InHole(pt, p) ==
  \E h \in 2..Len(p.geometry.coordinates) :
    booleanPointInPolygon(pt, p.geometry.coordinates[h])

Contains(pt, p) == InRing0(pt, p) /\ ~InHole(pt, p)

Returned(p) == \E j \in 1..Len(result.features) : result.features[j] = p

Stored == {polygons[k] : k \in 1..Len(polygons)}

\* The index and the store are those of one load.
Consistent == lastLoad # "error"

Searched == call.op = "search" /\ Consistent

SearchedOne == Searched /\ ~call.given

SearchedMany == Searched /\ call.given

\* The entries of the index of the configured backend in the order the tree
\* yields them, and the polygons of the entries whose box holds the point.
IndexEntries ==
  IF indexType = "flatbush"
  THEN [k \in 1..Len(flatIndex.items) |-> bboxData[flatIndex.items[k].idx + 1]]
  ELSE rtree.items

Candidates ==
  LET hit == SelectSeq(IndexEntries, LAMBDA b : Intersects(b, call.x, call.y))
  IN  [k \in 1..Len(hit) |-> polygons[hit[k].polyId + 1]]

Matching == SelectSeq(Candidates, LAMBDA p : Contains(Point, p))

Min(a, b) == IF a < b THEN a ELSE b

\* C1: after a successful load, search(x, y, -1) returns every stored polygon
\* record that contains the point (inside ring 0, inside no hole).
C1_UnboundedSearchComplete ==
  (call.op = "search" /\ call.given /\ call.limit = -1 /\ lastLoad = "ok")
    => \A p \in Stored : Contains(Point, p) => Returned(p)

\* C2: every polygon a search returns, with or without a limit, contains the
\* point; a polygon whose box holds the point but whose rings do not is not
\* returned.
C2_SearchSound ==
  call.op = "search"
    => \A j \in 1..Len(result.features) : Contains(Point, result.features[j])

C2_Witness ==
  /\ SearchedMany
  /\ Len(result.features) > 0
  /\ \E k \in 1..Len(Candidates) :
       /\ Len(Candidates[k].geometry.coordinates) > 0
       /\ ~InRing0(Point, Candidates[k])

\* C3: the resolver is true exactly for a point inside ring 0 and inside no
\* hole; so a point in a hole of stored polygon A is not matched to A and is
\* still matched to every other stored polygon B that contains it.
C3_HolesExcluded ==
  /\ \A p \in Stored :
       pointInPolygonWithHoles(Point, p) <=> (InRing0(Point, p) /\ ~InHole(Point, p))
  /\ (call.op = "search" /\ call.given /\ call.limit = -1 /\ lastLoad = "ok")
       => \A a \in Stored :
            (InRing0(Point, a) /\ InHole(Point, a))
              => /\ ~Returned(a)
                 /\ \A b \in Stored : Contains(Point, b) => Returned(b)

\* C4: search(x, y) returns the first candidate, in the order the index
\* yields the candidates, that contains the point, and undefined (no error)
\* when no candidate contains it.
C4_FirstMatchOrUndefined ==
  SearchedOne
    => IF Len(Matching) = 0
       THEN result.kind = "undefined"
       ELSE result.kind = "Feature" /\ result.features = <<Matching[1]>>

C4_Witness ==
  /\ SearchedOne
  /\ Len(Matching) > 1
  /\ Matching[1] # Matching[2]
  /\ ~Contains(Point, Candidates[1])
  /\ result.features = <<Matching[1]>>

C6_ResultCount ==
  SearchedMany
    => /\ call.limit >= 0 => Len(result.features) = Min(call.limit, Len(Matching))
       /\ call.limit = -1 => Len(result.features) = Len(Matching)

C6_Witness ==
  /\ SearchedMany
  /\ call.limit > 0
  /\ call.limit < Len(Matching)
  /\ Len(result.features) = call.limit

\* C7: the features of search(x, y, limit) are, for limit = k >= 0, the first
\* k matching candidates in the order the index yields the candidates, and
\* for limit = -1 all matching candidates in that order.
C7_IndexOrderPrefix ==
  SearchedMany
    => /\ call.limit >= 0
            => result.features
                 = SubSeq(Matching, 1, Min(call.limit, Len(Matching)))
       /\ call.limit = -1 => result.features = Matching

C7_Witness ==
  /\ SearchedMany
  /\ call.limit = 1
  /\ Len(Matching) = 2
  /\ Matching[1] # Matching[2]
  /\ layout.rev
  /\ result.features = <<Matching[1]>>

StoreOffset(k) ==
  IF k = 1 THEN 0
  ELSE Len(forEachFeature([polygons |-> <<>>, bboxes |-> <<>>, polyId |-> 0,
                           threw |-> FALSE],
                          SubSeq(FeaturesOf(loaded), 1, k - 1), 1).polygons)

BoxOf(b) == [minX |-> b.minX, minY |-> b.minY, maxX |-> b.maxX, maxY |-> b.maxY]

\* The entry of the index from whose box the record at store position n is
\* found: an entry whose polyId is that position and whose box is the box of
\* the record's ring 0.
IndexedByOwnBox(n) ==
  /\ Len(polygons[n].geometry.coordinates) > 0
  /\ \E e \in 1..Len(IndexEntries) :
       /\ IndexEntries[e].polyId = n - 1
       /\ ~getBoundingBox(polygons[n].geometry.coordinates[1]).threw
       /\ BoxOf(IndexEntries[e])
            = getBoundingBox(polygons[n].geometry.coordinates[1]).bbox

\* C9: a loaded MultiPolygon feature with N ring-groups has N stored records,
\* one per ring-group: a Polygon whose coordinates are the ring-group and
\* whose properties are the parent's properties object, indexed by the box of
\* its own ring 0, and returned by an unbounded search at a point it contains.
C9_MultiPolygonExpansion ==
  lastLoad = "ok"
    => \A k \in 1..Len(loaded) :
         LET parent == Feature(loaded[k])
             groups == parent.geometry.coordinates
         IN  parent.geometry.type = "MultiPolygon"
               => \A g \in 1..Len(groups) :
                    LET n == StoreOffset(k) + g
                    IN  /\ n <= Len(polygons)
                        /\ polygons[n].geometry.type = "Polygon"
                        /\ polygons[n].geometry.coordinates = groups[g]
                        /\ polygons[n].properties = parent.properties
                        /\ IndexedByOwnBox(n)
                        /\ (call.op = "search" /\ call.given /\ call.limit = -1
                               /\ Contains(Point, polygons[n]))
                             => Returned(polygons[n])

\* C10: after a successful load every bounding-box entry of the index has a
\* polyId that is a valid index of the store, the record at that index is
\* the one from whose ring 0 the box was computed, and the polyIds are
\* 0, 1, 2, ... in the order the records were indexed.
C10_PolyIdJoin ==
  lastLoad = "ok"
    => /\ \A k \in 1..Len(bboxData) : bboxData[k].polyId = k - 1
       /\ \A e \in 1..Len(IndexEntries) :
            LET id == IndexEntries[e].polyId
            IN  /\ 0 <= id /\ id < Len(polygons)
                /\ Len(polygons[id + 1].geometry.coordinates) > 0
                /\ ~getBoundingBox(polygons[id + 1].geometry.coordinates[1]).threw
                /\ getBoundingBox(polygons[id + 1].geometry.coordinates[1]).bbox
                     = BoxOf(IndexEntries[e])

\* ------------------------------------------------------------ load claims
LoadReturned == call.op = "load" /\ result.kind = "void"

LoadedCollection == call.op = "load" /\ call.kind = "collection"

\* The malformed features the specification says are skipped: no geometry,
\* no ring 0, or an empty ring 0.
Malformed(f) ==
  \/ f.geometry.type = "undefined"
  \/ Len(f.geometry.coordinates) = 0
  \/ Len(f.geometry.coordinates[1]) = 0

\* A Polygon feature whose rings are closed rings of positions with two
\* coordinates.
ValidPolygon(f) ==
  /\ f.geometry.type = "Polygon"
  /\ Len(f.geometry.coordinates) > 0
  /\ \A r \in 1..Len(f.geometry.coordinates) :
       LET ring == f.geometry.coordinates[r]
       IN  /\ Len(ring) >= 4
           /\ \A k \in 1..Len(ring) : Len(ring[k]) = 2
           /\ ring[1] = ring[Len(ring)]

\* A collection of malformed and valid Polygon features with at least one
\* malformed feature.
MalformedOrValid(ids) ==
  /\ \E k \in 1..Len(ids) : Malformed(Feature(ids[k]))
  /\ \A k \in 1..Len(ids) :
       Malformed(Feature(ids[k])) \/ ValidPolygon(Feature(ids[k]))

\* C11: loading a collection of malformed features (no geometry, no ring 0,
\* empty ring 0) and valid Polygon features raises no error, stores and
\* indexes exactly the valid features, each under the box of its own ring 0,
\* and an unbounded search at a point a valid feature contains returns it.
C11_MalformedSkipped ==
  /\ (LoadedCollection /\ MalformedOrValid(call.ids))
       => /\ result.kind = "void"
          /\ polygons = SelectSeq(FeaturesOf(call.ids), ValidPolygon)
          /\ Len(IndexEntries) = Len(polygons)
          /\ \A n \in 1..Len(polygons) : IndexedByOwnBox(n)
  /\ (call.op = "search" /\ lastLoad = "ok" /\ MalformedOrValid(loaded)
         /\ call.given /\ call.limit = -1)
       => \A k \in 1..Len(loaded) :
            (ValidPolygon(Feature(loaded[k])) /\ Contains(Point, Feature(loaded[k])))
              => Returned(Feature(loaded[k]))

\* A geometry the load cannot take a bounding box of: a ring 0 whose first
\* position has no coordinates.
HasBadPosition(f) ==
  /\ f.geometry.type = "Polygon"
  /\ Len(f.geometry.coordinates) > 0
  /\ Len(f.geometry.coordinates[1]) > 0
  /\ Len(f.geometry.coordinates[1][1]) < 2

\* C12: a load of a collection in which a feature's ring 0 starts with a
\* position without coordinates returns without an error; that feature is
\* skipped and the valid Polygon features of the collection are stored.
C12_LoadNeverAborts ==
  (LoadedCollection
      /\ \E k \in 1..Len(call.ids) : HasBadPosition(Feature(call.ids[k])))
    => /\ result.kind = "void"
       /\ \A k \in 1..Len(call.ids) :
            /\ HasBadPosition(Feature(call.ids[k]))
                 => Feature(call.ids[k]) \notin Stored
            /\ ValidPolygon(Feature(call.ids[k]))
                 => Feature(call.ids[k]) \in Stored

\* C13: loadFeatureCollection(null) raises 'collection parameter is
\* required', a collection without features or whose features is not an array
\* raises a malformed-collection error, and a collection whose features is
\* the empty array is accepted: the call returns.
C13_CollectionValidation ==
  call.op = "load"
    => /\ call.kind = "null" => result.kind = "collection parameter is required"
       /\ call.kind = "nofeatures"
            => result.kind = "collection must have a 'features' property"
       /\ call.kind = "notarray"
            => result.kind = "collection.features must be an array"
       /\ (call.kind = "collection" /\ call.ids = <<>>) => result.kind = "void"

ValidationErrors ==
  {"collection parameter is required",
   "collection must have a 'features' property",
   "collection.features must be an array"}

\* The forms of a query: search(x, y), search(x, y, -1) and search(x, y, 1).
QueryForms == {arg \in LimitArgs : ~arg.given \/ arg.limit \in {-1, 1}}

\* C14: a loadFeatureCollection call that raises the missing-collection or a
\* malformed-collection error leaves the polygon store, the bounding-box data
\* and both index handles as they were, and every query on the instance
\* (single, unbounded, or with limit 1, at every point) returns after the
\* call what it returned before it.
C14_RejectedLoadKeepsState ==
  [][(call'.op = "load" /\ call'.kind \in BadArguments)
       => /\ result'.kind \in ValidationErrors
          /\ polygons' = polygons
          /\ bboxData' = bboxData
          /\ rtree' = rtree
          /\ flatIndex' = flatIndex
          /\ \A x \in Grid, y \in Grid, arg \in QueryForms :
               search(Self', x, y, arg) = search(Self, x, y, arg)]_vars

C14_Witness ==
  /\ call.op = "load"
  /\ call.kind \in BadArguments
  /\ call.prevLoad = "ok"
  /\ result.kind \in ValidationErrors
  /\ Len(polygons) > 0
  /\ Len(bboxData) > 0

\* The instance a constructor of the same options makes of the collection.
FreshLoaded(ids) ==
  loadFeatureCollection(Fresh(indexType, layout), Coll(ids)).self

\* C15: after loadFeatureCollection was called with a collection on an
\* instance of either backend, whatever was loaded before, every query
\* returns exactly what it returns on a fresh instance of the same options
\* on which only that call was made.
C15_WholesaleReload ==
  LoadedCollection
    => \A x \in Grid, y \in Grid, arg \in LimitArgs :
         search(Self, x, y, arg) = search(FreshLoaded(call.ids), x, y, arg)

\* The same for the loads that returned.
C15_ReturnedReload ==
  LoadReturned
    => \A x \in Grid, y \in Grid, arg \in LimitArgs :
         search(Self, x, y, arg) = search(FreshLoaded(call.ids), x, y, arg)

OtherType == IF indexType = "rbush" THEN "flatbush" ELSE "rbush"

\* The instance of the other backend given the same collection.
Twin(ids) == loadFeatureCollection(Fresh(OtherType, layout), Coll(ids))

FeatureSet(r) == {r.features[k] : k \in 1..Len(r.features)}

\* C17: a load of a collection has on this backend the outcome it has on the
\* other backend (both return, or both raise the same error), and a search
\* has the result shape it has on the other backend and, when unbounded, the
\* same set of polygons.
C17_BackendEquivalence ==
  /\ LoadedCollection
       => result.kind = (IF Twin(call.ids).error = "none" THEN "void"
                         ELSE Twin(call.ids).error)
  /\ (call.op = "search" /\ lastLoad = "ok")
       => LET other == search(Twin(loaded).self, call.x, call.y,
                              [given |-> call.given, limit |-> call.limit])
          IN  /\ other.kind = result.kind
              /\ (call.given /\ call.limit = -1)
                   => FeatureSet(other) = FeatureSet(result)

\* C18: in every state the index handle, the bounding-box data and the store
\* are those of one load: of the collection of the last load that returned,
\* or all empty when no load returned yet.
C18_AtomicSwap ==
  LET acc == forEachFeature([polygons |-> <<>>, bboxes |-> <<>>,
                             polyId |-> 0, threw |-> FALSE],
                            FeaturesOf(loaded), 1)
  IN  /\ (rtree.built \/ flatIndex.built)
           => (polygons = acc.polygons /\ bboxData = acc.bboxes)
      /\ rtree.built => (rtree = buildRbushIndex(Self, bboxData).rtree)
      /\ flatIndex.built
           => (flatIndex = buildFlatbushIndex(Self, bboxData).flatIndex)
      /\ (~rtree.built /\ ~flatIndex.built)
           => (polygons = <<>> /\ bboxData = <<>>)

\* ------------------------------------------- getBoundingBox called directly
CoordMax == 0

MaxRing == 3

Coords == (-1)..CoordMax

\* A position with two coordinates, with one, or with none.
Positions ==
  {<<x, y>> : x \in Coords, y \in Coords} \cup {<<x>> : x \in Coords} \cup {<< >>}

ExampleRing == << <<2, 2>>, <<6, 4>>, <<4, 7>>, <<2, 2>> >>

TestRings ==
  { ExampleRing,
    << <<0, 0>>, <<2, 1>>, <<3, -1>>, <<5, 1>>, <<6, 4>>, <<3, 5>>, <<0, 0>> >>,
    << <<2, 1>>, <<3, 0>>, <<4, 3>>, <<0, 5>>, <<1, -3>>, <<2, 1>> >> }

\* The ring of the README's example.
ReadmeRing == << <<0, 1>>, <<2, 1>>, <<3, 4>>, <<1, 5>>, <<0, 1>> >>

Rings == SeqsUpTo(Positions, MaxRing) \cup TestRings \cup {ReadmeRing}

\* Polygon coordinate arrays of one ring, as the README's example passes.
RingArrays == { <<ring>> : ring \in SeqsUpTo(Positions, 2) \cup {ReadmeRing} }

\* The utility is imported next to an instance that was constructed with the
\* first feature.
InitBox ==
  /\ Init
  /\ layout = [rot |-> 0, rev |-> FALSE]
  /\ loaded = <<1>>

\* getBoundingBox(ring), the exported utility.
CallGetBoundingBox ==
  /\ Idle
  /\ \E ring \in Rings :
       LET got == getBoundingBox(ring)
       IN  /\ call' = [op |-> "getBoundingBox", ring |-> ring]
           /\ result' = IF got.threw THEN [kind |-> "Error"]
                        ELSE [kind |-> "bbox", bbox |-> got.bbox]
  /\ UNCHANGED <<indexType, layout, rtree, flatIndex, bboxData, polygons,
                 loaded, lastLoad>>

\* The README's call getBoundingBox(coordinates) unwrapping the first ring.
CallGetBoundingBoxOfFirstRing ==
  /\ Idle
  /\ \E coordinates \in RingArrays :
       LET got == getBoundingBox(coordinates[1])
       IN  /\ call' = [op |-> "getBoundingBox(coordinates)",
                       coordinates |-> coordinates]
           /\ result' = IF got.threw THEN [kind |-> "Error"]
                        ELSE [kind |-> "bbox", bbox |-> got.bbox]
  /\ UNCHANGED <<indexType, layout, rtree, flatIndex, bboxData, polygons,
                 loaded, lastLoad>>

\* getBoundingBox(coordinates) with a polygon coordinate array: poly[0] is
\* then a ring, and the box is made of what the code reads as firstPt[0] and
\* firstPt[1], the first two positions of that ring.
CallGetBoundingBoxOfRings ==
  /\ Idle
  /\ \E coordinates \in RingArrays :
       LET got == getBoundingBox(coordinates)
       IN  /\ call' = [op |-> "getBoundingBox(coordinates)",
                       coordinates |-> coordinates]
           /\ result' = IF got.threw THEN [kind |-> "Error"]
                        ELSE [kind |-> "bbox of positions", bbox |-> got.bbox]
  /\ UNCHANGED <<indexType, layout, rtree, flatIndex, bboxData, polygons,
                 loaded, lastLoad>>

NextBox == CallGetBoundingBox \/ CallGetBoundingBoxOfRings \/ Return

SpecBox == InitBox /\ [][NextBox]_vars

\* A non-empty ring all of whose positions have two coordinates.
Numeric(ring) ==
  /\ Len(ring) > 0
  /\ \A k \in 1..Len(ring) : Len(ring[k]) = 2

Xs(ring) == {ring[k][1] : k \in 1..Len(ring)}

Ys(ring) == {ring[k][2] : k \in 1..Len(ring)}

Least(S) == CHOOSE m \in S : \A e \in S : m <= e

Greatest(S) == CHOOSE m \in S : \A e \in S : m >= e

\* C19: for a non-empty ring of positions with two coordinates,
\* getBoundingBox returns the box whose minX and maxX are the least and the
\* greatest x of the ring's vertices and whose minY and maxY are the least
\* and the greatest y, so minX <= maxX and minY <= maxY; the ring
\* [[2,2],[6,4],[4,7],[2,2]] gives {minX: 2, minY: 2, maxX: 6, maxY: 7}.
C19_BoundingBoxExtrema ==
  (call.op = "getBoundingBox" /\ Numeric(call.ring))
    => /\ result.kind = "bbox"
       /\ result.bbox = [minX |-> Least(Xs(call.ring)),
                         minY |-> Least(Ys(call.ring)),
                         maxX |-> Greatest(Xs(call.ring)),
                         maxY |-> Greatest(Ys(call.ring))]
       /\ result.bbox.minX <= result.bbox.maxX
       /\ result.bbox.minY <= result.bbox.maxY
       /\ call.ring = ExampleRing
            => result.bbox = [minX |-> 2, minY |-> 2, maxX |-> 6, maxY |-> 7]

C19_Witness ==
  /\ call.op = "getBoundingBox"
  /\ call.ring = ExampleRing
  /\ result.kind = "bbox"
  /\ result.bbox.maxX = 6

\* The ring is empty or its first position lacks a coordinate.
BadRing(ring) == Len(ring) = 0 \/ Len(ring[1]) < 2

\* C20: a getBoundingBox call on an empty ring, or on a ring whose first
\* position lacks a coordinate, raises an error and returns no box, and it
\* changes nothing else: the instance's fields and the result of every query
\* (single, unbounded, or with limit 1, at every point) are after the call
\* what they were before it.
C20_BadRingRaises ==
  [][(call'.op = "getBoundingBox" /\ BadRing(call'.ring))
       => /\ result' = [kind |-> "Error"]
          /\ UNCHANGED <<indexType, layout, rtree, flatIndex, bboxData, polygons>>
          /\ \A x \in Grid, y \in Grid, arg \in QueryForms :
               search(Self', x, y, arg) = search(Self, x, y, arg)]_vars

\* The call raised on a ring whose later positions are valid, next to a
\* loaded instance.
C20_Witness ==
  /\ call.op = "getBoundingBox"
  /\ Len(call.ring) > 1
  /\ Len(call.ring[1]) < 2
  /\ Len(call.ring[2]) = 2
  /\ result = [kind |-> "Error"]
  /\ Len(polygons) > 0

\* The box of the numbers of a non-empty ring of positions with two
\* coordinates.
NumericBox(ring) ==
  [minX |-> Least(Xs(ring)), minY |-> Least(Ys(ring)),
   maxX |-> Greatest(Xs(ring)), maxY |-> Greatest(Ys(ring))]

SinglePart(f) ==
  /\ f.geometry.type = "Polygon"
  /\ Len(f.geometry.coordinates) > 0
  /\ Len(f.geometry.coordinates[1]) > 0

\* C22: after a load that returned for a collection whose features are all
\* Polygon features with a non-empty ring 0, polygons is the sequence of the
\* collection's features in input order, each record being the input feature
\* with its properties.
C22_StoredSingleParts ==
  (lastLoad = "ok" /\ \A k \in 1..Len(loaded) : SinglePart(Feature(loaded[k])))
    => /\ polygons = FeaturesOf(loaded)
       /\ \A k \in 1..Len(loaded) :
            polygons[k].properties = Feature(loaded[k]).properties

C22_Witness ==
  /\ lastLoad = "ok"
  /\ Len(loaded) = 2
  /\ loaded[1] # loaded[2]
  /\ \A k \in 1..Len(loaded) : SinglePart(Feature(loaded[k]))
  /\ Len(polygons) = 2
  /\ polygons[1] = Feature(loaded[1])

\* Exactly the index of the configured backend is set.
OwnIndexOnly ==
  IF indexType = "rbush" THEN rtree.built /\ flatIndex = Null
  ELSE flatIndex.built /\ rtree = Null

\* C23: an instance constructed without options has the rbush backend; no
\* step changes the configured backend; and whenever the last load returned,
\* also one all of whose features were skipped, the index of the configured
\* backend is set and the other index is null.
C23_IndexOwnership ==
  [][/\ constructorIndexType(NoOptions) = "rbush"
     /\ indexType' = indexType
     /\ lastLoad' = "ok" => OwnIndexOnly']_vars

\* An rbush instance after a load of a non-empty collection all of whose
\* features were skipped.
C23_Witness ==
  /\ LoadReturned
  /\ indexType = "rbush"
  /\ Len(call.ids) > 0
  /\ polygons = <<>>
  /\ rtree.built
  /\ flatIndex = Null

\* A feature of a geometry kind other than Polygon and MultiPolygon.
OtherKind(f) == f.geometry.type \notin {"Polygon", "MultiPolygon", "undefined"}

\* A collection of features of other kinds and valid Polygon features with at
\* least one feature of another kind.
OtherOrValid(ids) ==
  /\ \E k \in 1..Len(ids) : OtherKind(Feature(ids[k]))
  /\ \A k \in 1..Len(ids) :
       OtherKind(Feature(ids[k])) \/ ValidPolygon(Feature(ids[k]))

\* C24: loading a collection of features of other geometry kinds and valid
\* Polygon features raises no error and stores and indexes exactly the valid
\* Polygon features, with the polyIds 0, 1, 2, ... they have without the
\* other features.
C24_OtherKindsIgnored ==
  (LoadedCollection /\ OtherOrValid(call.ids))
    => /\ result.kind = "void"
       /\ polygons = SelectSeq(FeaturesOf(call.ids), ValidPolygon)
       /\ Len(bboxData) = Len(polygons)
       /\ \A k \in 1..Len(bboxData) : bboxData[k].polyId = k - 1
       /\ Len(IndexEntries) = Len(polygons)
       /\ \A n \in 1..Len(polygons) : IndexedByOwnBox(n)

\* The matches among the first n candidates.
MatchesIn(n) == Cardinality({k \in 1..n : Contains(Point, Candidates[k])})

\* The candidates the resolver has to see for a limit: all of them when the
\* limit is -1 or is not reached, none when it is not positive, and otherwise
\* those up to the candidate that is the limit-th match.
MustTest(limit) ==
  LET n == Len(Candidates)
  IN  IF limit = -1 THEN n
      ELSE IF limit <= 0 THEN 0
      ELSE IF MatchesIn(n) < limit THEN n
      ELSE CHOOSE m \in 1..n : MatchesIn(m) = limit /\ MatchesIn(m - 1) < limit

\* C25: search(x, y, limit) calls the resolver on the candidates in index
\* order and on no candidate after the one that made the number of matches
\* reach the effective limit; with limit 0 it never calls the resolver.
C25_ShortCircuit ==
  SearchedMany
    => /\ result.tested = MustTest(call.limit)
       /\ call.limit = 0 => result.tested = 0

\* A search with limit 1 stopped before the last candidate.
C25_Witness ==
  /\ SearchedMany
  /\ call.limit = 1
  /\ Len(result.features) = 1
  /\ result.tested >= 1
  /\ result.tested < Len(Candidates)

\* -------------------------------------------------------- implicit claims
\* C26: on an instance whose last load returned, search(x, y) is undefined
\* exactly when search(x, y, -1) has no feature, and otherwise it is the
\* first feature of search(x, y, -1) and the only feature of search(x, y, 1).
C26_SingleAgreesWithUnbounded ==
  (call.op = "search" /\ lastLoad = "ok" /\ ~call.given)
    => LET all == search(Self, call.x, call.y, [given |-> TRUE, limit |-> -1])
           one == search(Self, call.x, call.y, [given |-> TRUE, limit |-> 1])
       IN  /\ all.kind = "FeatureCollection"
           /\ one.kind = "FeatureCollection"
           /\ (result.kind = "undefined") = (Len(all.features) = 0)
           /\ result.kind # "undefined"
                => /\ result.kind = "Feature"
                   /\ result.features[1] = all.features[1]
                   /\ one.features = <<result.features[1]>>

\* A point in two stored polygons: the single result is the first of them.
C26_Witness ==
  /\ call.op = "search" /\ lastLoad = "ok" /\ ~call.given
  /\ result.kind = "Feature"
  /\ Len(Matching) >= 2
  /\ Matching[1] # Matching[2]
  /\ result.features[1] = Matching[1]

\* C27: after every load that returned the store has as many records as the
\* index has bounding boxes and as bboxData has entries.
C27_OneBoxPerRecord ==
  lastLoad = "ok"
    => /\ Len(polygons) = Len(bboxData)
       /\ Len(polygons) = Len(IndexEntries)

\* C28: a search on an instance on which no load returned raises no error:
\* search(x, y) is undefined and search(x, y, limit) is a FeatureCollection
\* without features, on both backends.
C28_NeverLoadedSearch ==
  (call.op = "search" /\ lastLoad = "none")
    => IF call.given
       THEN result = [kind |-> "FeatureCollection", features |-> <<>>,
                      tested |-> 0]
       ELSE result = [kind |-> "undefined", features |-> <<>>, tested |-> 0]

C28_Witness ==
  /\ call.op = "search" /\ lastLoad = "none"
  /\ indexType = "rbush"
  /\ ~rtree.built
  /\ ~call.given
  /\ result.kind = "undefined"

\* C29: search(x, y, limit) with limit < -1 returns a FeatureCollection
\* without features, also at a point stored polygons contain, and calls the
\* resolver on no candidate.
C29_NegativeLimit ==
  (SearchedMany /\ call.limit < -1)
    => result = [kind |-> "FeatureCollection", features |-> <<>>, tested |-> 0]

C29_Witness ==
  /\ SearchedMany
  /\ call.limit < -1
  /\ Len(Matching) > 0
  /\ result.kind = "FeatureCollection"
  /\ result.features = <<>>

====
